---------------------------- MODULE Spec2Model ----------------------------
(***************************************************************************)
(* A model of bs4_parser_pep: the documentation scraper of src/main.py     *)
(* (whats_new, latest_versions, download, pep, main) and its helpers of    *)
(* src/utils.py (get_response, find_tag).                                  *)
(*                                                                         *)
(* Strings are sequences of one-character strings, so that slicing,        *)
(* splitting, substring tests and the regular expression of                *)
(* latest_versions are computed and not assumed.  A URL or an href is the  *)
(* sequence of its '/'-separated segments.  A parsed page is the sequence  *)
(* of its tags in document order (preorder), each naming its parent (0 is  *)
(* the BeautifulSoup object itself).                                       *)
(***************************************************************************)
EXTENDS Integers, Sequences, FiniteSets, TLC

VARIABLES
    mode,            \* args.mode, or "find_tag" in the Tag Locator harness
    pc,              \* position of the run
    fault,           \* the exception propagating out of the run, "none" if none
    log,             \* the records handed to logging, oldest first
    net,             \* the last session.get: who called, the URL, how it ended
    response,        \* the local `response` of the running routine
    results,         \* the local `results` of the running routine
    ret,             \* what the routine returned to main
    output,          \* the results handed to control_output, oldest first
    page,            \* the index page whose tags the running loop walks
    items,           \* the list the running loop walks (tags of `page`)
    idx,             \* how many elements of `items` the loop has consumed
    okLinks,         \* whats_new: the version links whose fetch succeeded
    files,           \* download: the files written under downloads/
    sections,        \* pep: big_section.find_all('section')
    si,              \* pep: how many sections the outer loop has consumed
    section_status,  \* pep: the local `section_status`; bound = FALSE: unbound
    cached_href,     \* pep: the local `cached_href`
    counter,         \* pep: pep_status_counter, keys in insertion order
    scans,           \* pep: the tables whose cells were walked, in order
    visits,          \* pep: <<section, href>> of every PEP page requested
    noAbbrYet,       \* pep: no cell of the section at hand had an abbr so far
    lastCell,        \* pep: what the last processed cell did
    ft               \* Tag Locator harness: the call and what it gave

vars == <<mode, pc, fault, log, net, response, results, ret, output, page,
          items, idx, okLinks, files, sections, si, section_status,
          cached_href, counter, scans, visits, noAbbrYet,
          lastCell, ft>>

---------------------------------------------------------------------------
(* Bounds of the model.                                                    *)

\* tags of a generated document in the Tag Locator harness
MaxNodes == 3
\* version links on the what's-new index page
MaxVersions == 2
\* table cells on the whole PEP index page
MaxCells == 2
\* links of the "All versions" list
MaxLinks == 2

---------------------------------------------------------------------------
(* Strings.                                                                *)

Digits == {"0", "1", "2", "3", "4", "5", "6", "7", "8", "9"}

\* str.isspace for the characters the pages of the model contain
Whitespace == {" ", "\n", "\t"}

Max(S) == CHOOSE x \in S : \A y \in S : y <= x

Min(S) == CHOOSE x \in S : \A y \in S : x <= y

Last(s) == s[Len(s)]

Front(s) == SubSeq(s, 1, Len(s) - 1)

\* s[i:i+len(p)] == p
HasPrefixAt(s, p, i) ==
    /\ i >= 1
    /\ i + Len(p) - 1 <= Len(s)
    /\ \A k \in 1..Len(p) : s[i + k - 1] = p[k]

\* `p in s` of two str
Contains(s, p) == \E i \in 1..(Len(s) + 1) : HasPrefixAt(s, p, i)

\* s.replace(a, b) for one-character a and b
Replace(s, a, b) == [k \in 1..Len(s) |-> IF s[k] = a THEN b ELSE s[k]]

\* s.split(p)[-1]: what follows the last occurrence of p, all of s if none
SplitLast(s, p) ==
    LET at == {i \in 1..Len(s) : HasPrefixAt(s, p, i)}
    IN  IF at = {} THEN s ELSE SubSeq(s, Max(at) + Len(p), Len(s))

\* s.split(): is there any token
HasToken(s) == \E i \in 1..Len(s) : s[i] \notin Whitespace

\* s.split()[0], for s with a token
FirstToken(s) ==
    LET b == Min({i \in 1..Len(s) : s[i] \notin Whitespace})
        stops == {i \in b..Len(s) : s[i] \in Whitespace}
        e == IF stops = {} THEN Len(s) ELSE Min(stops) - 1
    IN  SubSeq(s, b, e)

\* ', '.join(k) of a tuple of str
RECURSIVE JoinComma(_)
JoinComma(k) ==
    IF k = <<>> THEN <<>>
    ELSE IF Len(k) = 1 THEN k[1]
    ELSE k[1] \o <<",", " ">> \o JoinComma(Tail(k))

\* `x in t` of a tuple t
InTuple(x, t) == \E k \in 1..Len(t) : t[k] = x

---------------------------------------------------------------------------
(* URLs: urllib.parse.urljoin and str.split('/').                          *)

\* urljoin(base, href), for an href that is absolute (with a scheme), empty,
\* or a relative path without '.', '..' or a leading '/'
urljoin(base, href) ==
    IF Len(href) > 0 /\ href[1] \in {"https:", "http:"} THEN href
    ELSE IF href = <<"">> THEN base
    ELSE Front(base) \o href

---------------------------------------------------------------------------
(* Parsed pages (bs4).                                                     *)

\* A tag: its name, one attribute (key "" for none), its own text and its
\* parent's index.
Tag(tag, key, val, text, parent) ==
    [tag |-> tag, key |-> key, val |-> val, text |-> text, parent |-> parent]

\* attrs of a lookup: none, an attribute that must equal val, or an href
\* that must match a compiled pattern
NoAttrs == [key |-> "", val |-> <<>>, re |-> FALSE]

Attr(key, val) == [key |-> key, val |-> val, re |-> FALSE]

RECURSIVE IsDescendant(_, _, _)
IsDescendant(doc, j, i) ==
    IF j = 0 THEN FALSE
    ELSE doc[j].parent = i \/ IsDescendant(doc, doc[j].parent, i)

\* names ending in pdf-a4.zip with something before it
PdfA4Names == {"python-3-docs-pdf-a4.zip"}

\* re.compile(r'.+pdf-a4\.zip$') on an href
PdfA4Pattern(val) == Len(val) > 0 /\ Last(val) \in PdfA4Names

TagMatches(n, tag, attrs) ==
    /\ n.tag = tag
    /\ \/ attrs.key = ""
       \/ /\ n.key = attrs.key
          /\ IF attrs.re THEN PdfA4Pattern(n.val) ELSE n.val = attrs.val

\* node.find_all(tag, attrs): the matching descendants in document order
find_all(doc, i, tag, attrs) ==
    LET Hit(j) == IsDescendant(doc, j, i) /\ TagMatches(doc[j], tag, attrs)
    IN  SelectSeq([j \in 1..Len(doc) |-> j], Hit)

\* node.find(tag, attrs): the first match, 0 (None) if there is none
find(doc, i, tag, attrs) ==
    LET all == find_all(doc, i, tag, attrs)
    IN  IF all = <<>> THEN 0 ELSE all[1]

\* node.text: the text of the node and of its descendants, in document order
RECURSIVE TextFrom(_, _, _)
TextFrom(doc, i, j) ==
    IF j > Len(doc) THEN <<>>
    ELSE (IF j = i \/ IsDescendant(doc, j, i) THEN doc[j].text ELSE <<>>)
         \o TextFrom(doc, i, j + 1)

Text(doc, i) == TextFrom(doc, i, 1)

---------------------------------------------------------------------------
(* Logging.                                                                *)

LogRecord(level, msg) == [level |-> level, msg |-> msg]

---------------------------------------------------------------------------
(* utils.py                                                                *)

\* requests.RequestException and the subclasses a transport failure raises
RequestException == {"ConnectionError", "Timeout"}

None == [some |-> FALSE, encoding |-> "", body |-> <<>>, content |-> <<>>]

\* What session.get gives: a response as the server declared it, or an
\* exception.
Served(enc, body, content) ==
    [kind |-> "ok", encoding |-> enc, body |-> body, content |-> content]

Raised(kind) == [kind |-> kind, encoding |-> "", body |-> <<>>, content |-> <<>>]

AsResponse(got, enc) ==
    [some |-> TRUE, encoding |-> enc, body |-> got.body, content |-> got.content]

\* get_response without the except clause
get_response_unguarded(got) ==
    IF got.kind = "ok"
    THEN [raised |-> "none", val |-> AsResponse(got, "utf-8"), logs |-> <<>>]
    ELSE [raised |-> got.kind, val |-> None, logs |-> <<>>]

\* get_response(session, url), given what session.get(url) does
get_response(got) ==
    IF got.kind = "ok"
    THEN [raised |-> "none", val |-> AsResponse(got, "utf-8"), logs |-> <<>>]
    ELSE IF got.kind \in RequestException
    THEN [raised |-> "none", val |-> None,
          logs |-> <<LogRecord("ERROR", "page load failed")>>]
    ELSE [raised |-> got.kind, val |-> None, logs |-> <<>>]

\* find_tag that hands back None
find_tag_none(doc, i, tag, attrs) ==
    [raised |-> "none", val |-> find(doc, i, tag, attrs), logs |-> <<>>]

\* find_tag(soup, tag, attrs), soup being node i of doc
find_tag(doc, i, tag, attrs) ==
    LET searched_tag == find(doc, i, tag, attrs)
    IN  IF searched_tag = 0
        THEN [raised |-> "ParserFindTagException", val |-> 0,
              logs |-> <<LogRecord("ERROR", "tag not found")>>]
        ELSE [raised |-> "none", val |-> searched_tag, logs |-> <<>>]

---------------------------------------------------------------------------
(* constants.py                                                            *)

\* 'https://docs.python.org/3/'
MAIN_DOC_URL == <<"https:", "", "docs.python.org", "3", "">>

\* 'https://peps.python.org/'
PEP_URL == <<"https:", "", "peps.python.org", "">>

S_Active == <<"A", "c", "t", "i", "v", "e">>
S_Accepted == <<"A", "c", "c", "e", "p", "t", "e", "d">>
S_Final == <<"F", "i", "n", "a", "l">>
S_Withdrawn == <<"W", "i", "t", "h", "d", "r", "a", "w", "n">>
S_Draft == <<"D", "r", "a", "f", "t">>

\* EXPECTED_STATUS: from a status letter to the tuple of labels it stands for
EXPECTED_STATUS ==
    [k \in {<<"A">>, <<"F">>, <<"W">>, <<>>} |->
        CASE k = <<"A">> -> <<S_Active, S_Accepted>>
          [] k = <<"F">> -> <<S_Final>>
          [] k = <<"W">> -> <<S_Withdrawn>>
          [] OTHER -> <<S_Draft, S_Active>>]

---------------------------------------------------------------------------
(* The network.                                                            *)

\* the encodings a server declares
Encodings == {"ISO-8859-1", "utf-8"}

\* what a session.get can raise: a transport failure, or an error of the
\* cache backend, which is no RequestException
GetFailures == RequestException \cup {"OperationalError"}

\* what session.get can do for a URL that serves one of `pages`
Gets(pages) ==
    {Served(enc, p, <<>>) : enc \in Encodings, p \in pages}
        \cup {Raised(k) : k \in GetFailures}

NetCall(via, url, got) == [via |-> via, url |-> url, kind |-> got.kind]

NoCall == [via |-> "", url |-> <<>>, kind |-> ""]

---------------------------------------------------------------------------
(* whats_new                                                               *)

S_WhatsNewId == <<"what-s-new-in-python">>
S_Toctree == <<"toctree-wrapper">>
S_ToctreeL1 == <<"toctree-l1">>

\* the hrefs of the version links, newest first
VersionHrefs == <<<<"3.13.html">>, <<"3.12.html">>, <<"3.11.html">>, <<"3.10.html">>>>

\* the tags of version entries k..n of the table of contents: an li and its a
RECURSIVE TocEntries(_, _)
TocEntries(k, n) ==
    IF k > n THEN <<>>
    ELSE <<Tag("li", "class", S_ToctreeL1, <<>>, 2),
           Tag("a", "href", VersionHrefs[k], <<"v">>, 2 * k + 1)>>
         \o TocEntries(k + 1, n)

\* a what's-new index page with n version links
WhatsNewIndex(n) ==
    <<Tag("section", "id", S_WhatsNewId, <<>>, 0),
      Tag("div", "class", S_Toctree, <<>>, 1)>> \o TocEntries(1, n)

\* the index pages the site may serve: well formed, or lacking the section,
\* the table of contents, or the link of an entry
WhatsNewPages ==
    {WhatsNewIndex(n) : n \in 0..MaxVersions}
        \cup {<<Tag("section", "id", <<"other">>, <<>>, 0)>>,
              <<Tag("section", "id", S_WhatsNewId, <<>>, 0)>>,
              WhatsNewIndex(1) \o <<Tag("li", "class", S_ToctreeL1, <<>>, 2)>>}

S_Title == <<"N", "e", "w">>
S_Editors == <<"E", "d", ":", "\n", "A", ".", "\n", "B", ".">>

\* the pages a version link may serve: well formed, or lacking h1 or dl
VersionPages ==
    {<<Tag("h1", "", <<>>, S_Title, 0), Tag("dl", "", <<>>, S_Editors, 0)>>,
     <<Tag("dl", "", <<>>, S_Editors, 0)>>,
     <<Tag("h1", "", <<>>, S_Title, 0)>>}

WhatsNewHeader == <<"Link", "Title", "Editor, Author">>

\* What a step of a routine gives: the exception it raises ("none" if
\* none), whether the routine returns here and what, what it logs, and the
\* locals it leaves.
Step(raised, returns, value, logs, resp, rows, doc, list, n) ==
    [raised |-> raised, returns |-> returns, value |-> value, logs |-> logs,
     response |-> resp, results |-> rows, page |-> doc, items |-> list,
     idx |-> n]

RetNone == [none |-> TRUE, rows |-> <<>>]

RetRows(rows) == [none |-> FALSE, rows |-> rows]

whats_new_url == urljoin(MAIN_DOC_URL, <<"whatsnew", "">>)

\* whats_new, lines 39-50: the index page and its version entries
whats_new_begin(got) ==
    LET r == get_response(got)
        doc == r.val.body
        main_div == find_tag(doc, 0, "section", Attr("id", S_WhatsNewId))
        div_with_ul == find_tag(doc, main_div.val, "div", Attr("class", S_Toctree))
        sections_by_python ==
            find_all(doc, div_with_ul.val, "li", Attr("class", S_ToctreeL1))
    IN  IF r.raised # "none"
        THEN Step(r.raised, FALSE, RetNone, r.logs, response, results, page, items, idx)
        ELSE IF r.val = None
        THEN Step("none", TRUE, RetNone, r.logs, r.val, results, page, items, idx)
        ELSE IF main_div.raised # "none"
        THEN Step(main_div.raised, FALSE, RetNone, main_div.logs, r.val,
                  results, page, items, idx)
        ELSE IF div_with_ul.raised # "none"
        THEN Step(div_with_ul.raised, FALSE, RetNone, div_with_ul.logs, r.val,
                  results, page, items, idx)
        ELSE Step("none", FALSE, RetNone, <<>>, r.val, <<WhatsNewHeader>>, doc,
                  sections_by_python, 0)

\* the version link of the entry the loop is at
version_link_of(section) ==
    urljoin(whats_new_url, page[find(page, section, "a", NoAttrs)].val)

\* whats_new that gives up at an unreachable version page
whats_new_section_abort(got) ==
    LET section == items[idx + 1]
        version_a_tag == find_tag(page, section, "a", NoAttrs)
        r == get_response(got)
        doc == r.val.body
        h1 == find_tag(doc, 0, "h1", NoAttrs)
        dl == find_tag(doc, 0, "dl", NoAttrs)
        dl_text == Replace(Text(doc, dl.val), "\n", " ")
        row == <<version_link_of(section), Text(doc, h1.val), dl_text>>
    IN  IF version_a_tag.raised # "none"
        THEN Step(version_a_tag.raised, FALSE, RetNone, version_a_tag.logs,
                  response, results, page, items, idx)
        ELSE IF r.raised # "none"
        THEN Step(r.raised, FALSE, RetNone, r.logs, response, results, page,
                  items, idx)
        ELSE IF r.val = None
        THEN Step("none", TRUE, RetRows(results), r.logs, r.val, results, page,
                  items, idx + 1)
        ELSE IF h1.raised # "none"
        THEN Step(h1.raised, FALSE, RetNone, h1.logs, r.val, results, page,
                  items, idx)
        ELSE IF dl.raised # "none"
        THEN Step(dl.raised, FALSE, RetNone, dl.logs, r.val, results, page,
                  items, idx)
        ELSE Step("none", FALSE, RetNone, <<>>, r.val, Append(results, row),
                  page, items, idx + 1)

\* whats_new, lines 51-63: one pass of the loop over the version entries
whats_new_section(got) ==
    LET section == items[idx + 1]
        version_a_tag == find_tag(page, section, "a", NoAttrs)
        r == get_response(got)
        doc == r.val.body
        h1 == find_tag(doc, 0, "h1", NoAttrs)
        dl == find_tag(doc, 0, "dl", NoAttrs)
        dl_text == Replace(Text(doc, dl.val), "\n", " ")
        row == <<version_link_of(section), Text(doc, h1.val), dl_text>>
    IN  IF version_a_tag.raised # "none"
        THEN Step(version_a_tag.raised, FALSE, RetNone, version_a_tag.logs,
                  response, results, page, items, idx)
        ELSE IF r.raised # "none"
        THEN Step(r.raised, FALSE, RetNone, r.logs, response, results, page,
                  items, idx)
        ELSE IF r.val = None
        THEN Step("none", FALSE, RetNone, r.logs, r.val, results, page, items,
                  idx + 1)
        ELSE IF h1.raised # "none"
        THEN Step(h1.raised, FALSE, RetNone, h1.logs, r.val, results, page,
                  items, idx)
        ELSE IF dl.raised # "none"
        THEN Step(dl.raised, FALSE, RetNone, dl.logs, r.val, results, page,
                  items, idx)
        ELSE Step("none", FALSE, RetNone, <<>>, r.val, Append(results, row),
                  page, items, idx + 1)

---------------------------------------------------------------------------
(* latest_versions                                                         *)

S_Python == <<"P", "y", "t", "h", "o", "n", " ">>
S_AllVersions == <<"A", "l", "l", " ", "v", "e", "r", "s", "i", "o", "n", "s">>
S_Sidebar == <<"sphinxsidebarwrapper">>

NoMatch == [matched |-> FALSE, version |-> <<>>, status |-> <<>>]

\* the end of the longest run of digits that starts at i (i - 1 if none)
RECURSIVE DigitRun(_, _)
DigitRun(s, i) ==
    IF i <= Len(s) /\ s[i] \in Digits THEN DigitRun(s, i + 1) ELSE i - 1

\* the last character of the line that position i is on ('.' stops at '\n')
RECURSIVE LineEnd(_, _)
LineEnd(s, i) ==
    IF i <= Len(s) /\ s[i] # "\n" THEN LineEnd(s, i + 1) ELSE i - 1

\* r'Python (?P<version>\d\.\d+) \((?P<status>.*)\)' tried at position i:
\* \d+ and .* are greedy, so the version is the whole run of digits and the
\* status ends before the last ')' of the line
MatchAt(s, i) ==
    LET d == i + Len(S_Python)
        e == DigitRun(s, d + 2)
        st == e + 3
        closers == {k \in st..LineEnd(s, st) : s[k] = ")"}
    IN  IF /\ HasPrefixAt(s, S_Python, i)
           /\ d + 1 <= Len(s)
           /\ s[d] \in Digits
           /\ s[d + 1] = "."
           /\ e >= d + 2
           /\ HasPrefixAt(s, <<" ", "(">>, e + 1)
           /\ closers # {}
        THEN [matched |-> TRUE, version |-> SubSeq(s, d, e),
              status |-> SubSeq(s, st, Max(closers) - 1)]
        ELSE NoMatch

\* re.match(pattern, s): at the start of s only
re_match(s) == MatchAt(s, 1)

\* re.search(pattern, s): the leftmost position that matches
re_search(s) ==
    LET at == {i \in 1..Len(s) : MatchAt(s, i).matched}
    IN  IF at = {} THEN NoMatch ELSE MatchAt(s, Min(at))

\* the link texts of the model
S_Stable == S_Python \o <<"3", ".", "9", " ", "(", "s", "t", "a", "b", "l", "e", ")">>
S_Python20 == S_Python \o <<"2", ".", "0">>
S_TwoParens == S_Python \o <<"3", ".", "1", "0", " ", "(", "a", ")", " ", "(", "b", ")">>
S_Embedded == <<"x">> \o S_Python \o <<"3", ".", "8", " ", "(", "e", "o", "l", ")", "y">>
S_TwoDigitMajor == S_Python \o <<"1", "0", ".", "1", " ", "(", "s", ")">>
S_BrokenLine == S_Python \o <<"3", ".", "7", " ", "(", "a", "\n", "b", ")">>

LinkTexts ==
    {S_Stable, S_Python20, S_AllVersions, S_TwoParens, S_Embedded,
     S_TwoDigitMajor, S_BrokenLine}

\* the hrefs of the links of a list, in order
DocHrefs == <<<<"https:", "", "docs.python.org", "3.13", "">>, <<"3.12", "">>, <<"3.11", "">>, <<"3.10", "">>>>

\* the links of a list under tag `parent`, with the texts given
RECURSIVE Links(_, _, _)
Links(texts, k, parent) ==
    IF k > Len(texts) THEN <<>>
    ELSE <<Tag("a", "href", DocHrefs[k], texts[k], parent)>>
         \o Links(texts, k + 1, parent)

RECURSIVE SeqsUpTo(_, _)
SeqsUpTo(S, n) ==
    IF n = 0 THEN {<<>>}
    ELSE LET shorter == SeqsUpTo(S, n - 1)
         IN  shorter \cup {Append(q, x) : q \in shorter, x \in S}

\* The documentation root as served: a sidebar with one list of links; the
\* same after a list of another link; the same nested in that list; or no
\* sidebar at all.
MainPages ==
    LET texts == SeqsUpTo(LinkTexts, MaxLinks)
        sidebar == Tag("div", "class", S_Sidebar, <<>>, 0)
        ul(parent) == Tag("ul", "", <<>>, <<>>, parent)
    IN  {<<sidebar, ul(1)>> \o Links(t, 1, 2) : t \in texts}
        \cup {<<sidebar, ul(1), Tag("a", "href", <<"index.html">>, <<"x">>, 2), ul(1)>>
                  \o Links(t, 1, 4) : t \in texts}
        \cup {<<sidebar, ul(1), Tag("a", "href", <<"index.html">>, <<"x">>, 2), ul(2)>>
                  \o Links(t, 1, 4) : t \in texts}
        \cup {<<Tag("div", "class", <<"body">>, <<>>, 0)>>}

LatestHeader == <<"Link", "Version", "Status">>

\* the row of one link with re.match in the place of re.search
version_row_match(doc, a_tag) ==
    LET text_match == re_match(doc[a_tag].text)
    IN  IF text_match.matched
        THEN <<doc[a_tag].val, text_match.version, text_match.status>>
        ELSE <<doc[a_tag].val, doc[a_tag].text, <<>>>>

\* lines 114-123: the row of one link
version_row(doc, a_tag) ==
    LET text_match == re_search(doc[a_tag].text)
    IN  IF text_match.matched
        THEN <<doc[a_tag].val, text_match.version, text_match.status>>
        ELSE <<doc[a_tag].val, doc[a_tag].text, <<>>>>

\* lines 105-110: the links of the first list whose text has 'All versions'
all_versions_list(doc, ul_tags) ==
    LET hits == SelectSeq(ul_tags, LAMBDA ul : Contains(Text(doc, ul), S_AllVersions))
    IN  IF hits = <<>> THEN [found |-> FALSE, a_tags |-> <<>>]
        ELSE [found |-> TRUE, a_tags |-> find_all(doc, hits[1], "a", NoAttrs)]

\* latest_versions, whole
latest_versions(got) ==
    LET r == get_response(got)
        doc == r.val.body
        sidebar == find_tag(doc, 0, "div", Attr("class", S_Sidebar))
        ul_tags == find_all(doc, sidebar.val, "ul", NoAttrs)
        list == all_versions_list(doc, ul_tags)
        rows == [k \in 1..Len(list.a_tags) |-> version_row(doc, list.a_tags[k])]
    IN  IF r.raised # "none"
        THEN Step(r.raised, FALSE, RetNone, r.logs, response, results, page, items, idx)
        ELSE IF r.val = None
        THEN Step("none", TRUE, RetNone, r.logs, r.val, results, page, items, idx)
        ELSE IF sidebar.raised # "none"
        THEN Step(sidebar.raised, FALSE, RetNone, sidebar.logs, r.val, results,
                  page, items, idx)
        ELSE IF ~list.found
        THEN Step("Exception", FALSE, RetNone, <<>>, r.val, results, doc,
                  items, idx)
        ELSE Step("none", TRUE, RetRows(<<LatestHeader>> \o rows), <<>>, r.val,
                  <<LatestHeader>> \o rows, doc, list.a_tags, Len(list.a_tags))

---------------------------------------------------------------------------
(* download                                                                *)

downloads_url == urljoin(MAIN_DOC_URL, <<"download.html">>)

S_Main == <<"main">>
S_Docutils == <<"docutils">>

\* The downloads page as served: the archive link first, or after another
\* link, or absent; or the table or the main region absent.
DownloadPages ==
    LET main == Tag("div", "role", S_Main, <<>>, 0)
        table == Tag("table", "class", S_Docutils, <<>>, 1)
        pdf == Tag("a", "href", <<"archives", "python-3-docs-pdf-a4.zip">>, <<>>, 2)
        letter == Tag("a", "href", <<"archives", "python-3-docs-pdf-letter.zip">>, <<>>, 2)
    IN  {<<main, table, pdf>>, <<main, table, letter, pdf>>,
         <<main, table, letter>>, <<main>>,
         <<Tag("div", "role", <<"navigation">>, <<>>, 0)>>}

\* the bodies an archive URL may serve
ArchiveBodies == {<<80, 75, 3, 4>>, <<>>}

\* what session.get can do for the archive URL
ArchiveGets ==
    {Served(enc, <<>>, c) : enc \in {"ISO-8859-1"}, c \in ArchiveBodies}
        \cup {Raised(k) : k \in GetFailures}

\* lines 152-156: the archive's URL
archive_url_of(doc) ==
    LET pdf_a4_tag ==
            find(doc, find(doc, find(doc, 0, "div", Attr("role", S_Main)),
                           "table", Attr("class", S_Docutils)),
                 "a", [key |-> "href", val |-> <<>>, re |-> TRUE])
    IN  urljoin(downloads_url, doc[pdf_a4_tag].val)

\* download, lines 143-160: the downloads page and the archive's link
download_begin(got) ==
    LET r == get_response(got)
        doc == r.val.body
        main_tag == find_tag(doc, 0, "div", Attr("role", S_Main))
        table_tag == find_tag(doc, main_tag.val, "table", Attr("class", S_Docutils))
        pdf_a4_tag == find_tag(doc, table_tag.val, "a",
                               [key |-> "href", val |-> <<>>, re |-> TRUE])
    IN  IF r.raised # "none"
        THEN Step(r.raised, FALSE, RetNone, r.logs, response, results, page, items, idx)
        ELSE IF r.val = None
        THEN Step("none", TRUE, RetNone, r.logs, r.val, results, page, items, idx)
        ELSE IF main_tag.raised # "none"
        THEN Step(main_tag.raised, FALSE, RetNone, main_tag.logs, r.val,
                  results, page, items, idx)
        ELSE IF table_tag.raised # "none"
        THEN Step(table_tag.raised, FALSE, RetNone, table_tag.logs, r.val,
                  results, page, items, idx)
        ELSE IF pdf_a4_tag.raised # "none"
        THEN Step(pdf_a4_tag.raised, FALSE, RetNone, pdf_a4_tag.logs, r.val,
                  results, page, items, idx)
        ELSE Step("none", FALSE, RetNone, <<>>, r.val, results, doc, items, idx)

\* a directory or a file under BASE_DIR
Dir(path) == [path |-> path, dir |-> TRUE, content |-> <<>>]

File(path, content) == [path |-> path, dir |-> FALSE, content |-> content]

\* download, lines 162-168: the archive itself, fetched with session.get
download_archive(got) ==
    LET archive_url == archive_url_of(page)
        filename == Last(archive_url)
    IN  IF got.kind # "ok"
        THEN [raised |-> got.kind, logs |-> <<>>, response |-> response,
              files |-> files]
        ELSE [raised |-> "none",
              logs |-> <<LogRecord("INFO", "archive saved")>>,
              response |-> AsResponse(got, got.encoding),
              files |-> {f \in files : f.path # <<"downloads", filename>>}
                            \cup {File(<<"downloads", filename>>, got.content)}]

---------------------------------------------------------------------------
(* pep                                                                     *)

S_IndexByCategory == <<"index-by-category">>
S_StatusMarker == <<"S", "t", "a", "t", "u", "s", ":">>

\* A cell of an index table: the text of its abbr and the href of its a,
\* <<>> for a cell without the one or the other.
Cell(abbr, href) == [abbr |-> abbr, href |-> href]

Pep1 == <<"pep-0001">>
Pep8 == <<"pep-0008">>

CellKinds ==
    {Cell(<<"S", "A">>, <<>>), Cell(<<"S", "W">>, <<>>), Cell(<<>>, Pep1),
     Cell(<<>>, Pep8), Cell(<<"S", "A">>, Pep1)}

AddCell(doc, table, cell) ==
    LET td == Len(doc) + 1
    IN  doc \o <<Tag("td", "", <<>>, <<>>, table)>>
            \o (IF cell.abbr = <<>> THEN <<>>
                ELSE <<Tag("abbr", "", <<>>, cell.abbr, td)>>)
            \o (IF cell.href = <<>> THEN <<>>
                ELSE <<Tag("a", "href", cell.href, <<>>, td)>>)

RECURSIVE AddCells(_, _, _)
AddCells(doc, table, cells) ==
    IF cells = <<>> THEN doc
    ELSE AddCells(AddCell(doc, table, Head(cells)), table, Tail(cells))

\* A subsection of the index: "plain" holds a table, "empty" holds none,
\* "nested" holds a subsection of its own, which holds the table.
AddBlock(doc, kind, cells) ==
    LET s == Len(doc) + 1
    IN  IF kind = "empty" THEN doc \o <<Tag("section", "", <<>>, <<>>, 1)>>
        ELSE IF kind = "plain"
        THEN AddCells(doc \o <<Tag("section", "", <<>>, <<>>, 1),
                               Tag("table", "", <<>>, <<>>, s)>>, s + 1, cells)
        ELSE AddCells(doc \o <<Tag("section", "", <<>>, <<>>, 1),
                               Tag("section", "", <<>>, <<>>, s),
                               Tag("table", "", <<>>, <<>>, s + 1)>>, s + 2, cells)

\* the subsections of an index page, in order; the tables take the cells
Layouts ==
    {<<"plain">>, <<"nested">>, <<"empty", "plain">>, <<"plain", "plain">>,
     <<"plain", "nested">>}

\* the index page of a layout: the first table takes `first`, the second `rest`
RECURSIVE AddBlocks(_, _, _, _)
AddBlocks(doc, layout, first, rest) ==
    IF layout = <<>> THEN doc
    ELSE IF Head(layout) = "empty"
    THEN AddBlocks(AddBlock(doc, "empty", <<>>), Tail(layout), first, rest)
    ELSE AddBlocks(AddBlock(doc, Head(layout), first), Tail(layout), rest, <<>>)

Tables(layout) == Len(SelectSeq(layout, LAMBDA k : k # "empty"))

PepIndex(layout, first, rest) ==
    AddBlocks(<<Tag("section", "id", S_IndexByCategory, <<>>, 0)>>, layout,
              first, rest)

\* the PEP index as served, or a page without the index section
PepPages ==
    {PepIndex(l, SubSeq(c, 1, cut), SubSeq(c, cut + 1, Len(c))) :
        <<l, c, cut>> \in
            {x \in Layouts \X SeqsUpTo(CellKinds, MaxCells) \X (0..MaxCells) :
                /\ x[3] <= Len(x[2])
                /\ Tables(x[1]) = 1 => x[3] = Len(x[2])}}
        \cup {<<Tag("section", "id", <<"numerical-index">>, <<>>, 0)>>}

\* the text of the header list of a PEP page reporting `status`
HeaderText(status) ==
    <<"A", ":", " ", "x", "\n">> \o S_StatusMarker \o <<" ">> \o status
        \o <<"\n", "T", ":", " ", "y">>

\* the PEP pages as served: reporting a status, without dl, or with nothing
\* after 'Status:'
DetailPages ==
    {<<Tag("dl", "", <<>>, HeaderText(S_Active), 0)>>,
     <<Tag("dl", "", <<>>, HeaderText(S_Withdrawn), 0)>>,
     <<Tag("p", "", <<>>, S_StatusMarker, 0)>>,
     <<Tag("dl", "", <<>>, S_StatusMarker \o <<"\n">>, 0)>>}

PepHeader == <<"Status", "Count">>

Unbound == [bound |-> FALSE, val |-> <<>>]

Bound(v) == [bound |-> TRUE, val |-> v]

\* pep_status_counter[key], 0 for a key it does not hold
Count(c, key) ==
    LET at == {k \in 1..Len(c) : c[k].key = key}
    IN  IF at = {} THEN 0 ELSE c[Min(at)].n

\* pep_status_counter[key] += 1
Increment(c, key) ==
    IF \E k \in 1..Len(c) : c[k].key = key
    THEN [k \in 1..Len(c) |->
            IF c[k].key = key THEN [key |-> key, n |-> c[k].n + 1] ELSE c[k]]
    ELSE Append(c, [key |-> key, n |-> 1])

\* line 185: big_section.find_all('section')
subsections(doc, big_section) == find_all(doc, big_section, "section", NoAttrs)

\* line 189: section.table
section_table(doc, section) == find(doc, section, "table", NoAttrs)

\* section_status reset where a section starts
status_entering_section_reset(status) == Unbound

\* section_status where a section starts: nothing in the loop of line 187
\* assigns it, so it is what the cells before left
status_entering_section(status) == status

\* line 204 without the test of cached_href
is_new_link_always(href, cached) == TRUE

\* line 204: td.a['href'] not in cached_href
is_new_link(href, cached) == href \notin cached

\* line 225 with the comparison left out
status_matches_always(page_status, expected) == TRUE

\* line 225: page_status in section_status
status_matches(page_status, expected) == InTuple(page_status, expected)

\* line 197 onward: does the cell the loop is at fetch a PEP page
pep_cell_visits ==
    LET a == find(page, items[idx + 1], "a", NoAttrs)
    IN  a # 0 /\ is_new_link(page[a].val, cached_href)

NoGet == Raised("")

\* What a cell did: "skipped" (no request), "fetched" (a page was read and
\* its status compared), "unbound" (the comparison found section_status
\* unbound), "fault" (any other exception); the href of its link, the
\* status the page reported, the section_status at the comparison, the
\* counter and the length of the log before the cell, and whether no cell
\* of this section up to and including this one had an abbr.
NoCell ==
    [did |-> "none", href |-> <<>>, page_status |-> <<>>, expected |-> Unbound,
     before |-> <<>>, logged |-> 0, stale |-> FALSE]

\* lines 197-235: one cell of the table
pep_cell(got) ==
    LET td == items[idx + 1]
        abbr == find(page, td, "abbr", NoAttrs)
        letter == SubSeq(page[abbr].text, 2, Len(page[abbr].text))
        key_error == abbr # 0 /\ letter \notin DOMAIN EXPECTED_STATUS
        status == IF abbr # 0 /\ ~key_error THEN Bound(EXPECTED_STATUS[letter])
                  ELSE section_status
        a == find(page, td, "a", NoAttrs)
        href == IF a = 0 THEN <<>> ELSE page[a].val
        visit == a # 0 /\ is_new_link(href, cached_href)
        r == get_response(got)
        doc == r.val.body
        dl == find_tag(doc, 0, "dl", NoAttrs)
        rest == SplitLast(Text(doc, dl.val), S_StatusMarker)
        page_status == FirstToken(rest)
        cell(did, st) ==
            [did |-> did, href |-> href, page_status |-> st, expected |-> status,
             before |-> counter, logged |-> Len(log),
             stale |-> noAbbrYet /\ abbr = 0]
        out(raised, logs, resp, cached, c, did, st) ==
            [raised |-> raised, logs |-> logs, response |-> resp,
             section_status |-> status, cached_href |-> cached, counter |-> c,
             lastCell |-> cell(did, st)]
    IN  IF key_error
        THEN out("KeyError", <<>>, response, cached_href, counter, "fault", <<>>)
        ELSE IF ~visit
        THEN out("none", <<>>, response, cached_href, counter, "skipped", <<>>)
        ELSE IF r.raised # "none"
        THEN out(r.raised, r.logs, response, cached_href \cup {href}, counter,
                 "fault", <<>>)
        ELSE IF r.val = None
        THEN out("AttributeError", r.logs, r.val, cached_href \cup {href},
                 counter, "fault", <<>>)
        ELSE IF dl.raised # "none"
        THEN out(dl.raised, dl.logs, r.val, cached_href \cup {href}, counter,
                 "fault", <<>>)
        ELSE IF ~HasToken(rest)
        THEN out("IndexError", <<>>, r.val, cached_href \cup {href}, counter,
                 "fault", <<>>)
        ELSE IF ~status.bound
        THEN out("UnboundLocalError", <<>>, r.val, cached_href \cup {href},
                 counter, "unbound", page_status)
        ELSE IF status_matches(page_status, status.val)
        THEN out("none", <<>>, r.val, cached_href \cup {href},
                 Increment(counter, status.val), "fetched", page_status)
        ELSE out("none", <<LogRecord("INFO", "status mismatch")>>, r.val,
                 cached_href \cup {href}, counter, "fetched", page_status)

\* line 240: the rows of the counter
counter_rows(c) == [k \in 1..Len(c) |-> <<JoinComma(c[k].key), c[k].n>>]

---------------------------------------------------------------------------
(* The Tag Locator on generated documents.                                 *)

FtTags == {"div", "a"}

FtAttrs == {NoAttrs, Attr("class", <<"x">>)}

\* the tags a new last tag of doc may hang under: the document itself, the
\* last tag, or one of its ancestors (document order is preorder)
RightPath(doc) ==
    {0} \cup {i \in 1..Len(doc) : i = Len(doc) \/ IsDescendant(doc, Len(doc), i)}

RECURSIVE DocsUpTo(_)
DocsUpTo(n) ==
    IF n = 0 THEN {<<>>}
    ELSE LET smaller == DocsUpTo(n - 1)
         IN  smaller \cup
             {Append(d, Tag(t, a.key, a.val, <<>>, p)) :
                 <<d, t, a, p>> \in
                     {x \in smaller \X FtTags \X FtAttrs \X (0..(n - 1)) :
                         Len(x[1]) = n - 1 /\ x[4] \in RightPath(x[1])}}

NoFt ==
    [doc |-> <<>>, node |-> 0, tag |-> "", attrs |-> NoAttrs, called |-> FALSE,
     raised |-> "none", val |-> 0]

---------------------------------------------------------------------------
(* The run.                                                                *)

\* MODE_TO_FUNCTION.keys()
Modes == {"whats-new", "latest-versions", "download", "pep"}

Locals0 ==
    /\ fault = "none"
    /\ log = <<>>
    /\ net = NoCall
    /\ response = None
    /\ results = <<>>
    /\ ret = RetNone
    /\ output = <<>>
    /\ page = <<>>
    /\ items = <<>>
    /\ idx = 0
    /\ okLinks = <<>>
    /\ files = {}
    /\ sections = <<>>
    /\ si = 0
    /\ section_status = Unbound
    /\ cached_href = {}
    /\ counter = <<>>
    /\ scans = <<>>
    /\ visits = <<>>
    /\ noAbbrYet = TRUE
    /\ lastCell = NoCell

Init ==
    /\ mode \in Modes
    /\ pc = "start"
    /\ ft = NoFt
    /\ Locals0

pepVars ==
    <<sections, si, section_status, cached_href, counter, scans, visits,
      noAbbrYet, lastCell>>

\* main, lines 269-283: logging, the arguments, the session, the dispatch
MainStart ==
    /\ pc = "start"
    /\ pc' = "call"
    /\ log' = log \o <<LogRecord("INFO", "parser started"),
                       LogRecord("INFO", "command line arguments")>>
    /\ UNCHANGED <<mode, fault, net, response, results, ret, output, page,
                   items, idx, okLinks, files, ft>>
    /\ UNCHANGED pepVars

\* The effect of a step of a routine on the run: an exception leaves main,
\* a return hands the value to main, and otherwise the routine goes on at
\* `next`.
Apply(st, next) ==
    /\ response' = st.response
    /\ results' = st.results
    /\ page' = st.page
    /\ items' = st.items
    /\ idx' = st.idx
    /\ log' = log \o st.logs
    /\ fault' = st.raised
    /\ ret' = IF st.raised = "none" /\ st.returns THEN st.value ELSE ret
    /\ pc' = IF st.raised # "none" THEN "aborted"
             ELSE IF st.returns THEN "returned" ELSE next

WhatsNewBegin ==
    /\ mode = "whats-new"
    /\ pc = "call"
    /\ \E got \in Gets(WhatsNewPages) :
          /\ net' = NetCall("get_response", whats_new_url, got)
          /\ Apply(whats_new_begin(got), "whats_new_loop")
    /\ UNCHANGED <<mode, output, okLinks, files, ft>>
    /\ UNCHANGED pepVars

WhatsNewSection ==
    /\ mode = "whats-new"
    /\ pc = "whats_new_loop"
    /\ idx < Len(items)
    /\ \E got \in Gets(VersionPages) :
          LET st == whats_new_section(got)
              a == find(page, items[idx + 1], "a", NoAttrs)
          IN  /\ net' = IF a = 0 THEN net
                        ELSE NetCall("get_response", version_link_of(items[idx + 1]), got)
              /\ okLinks' = IF a # 0 /\ got.kind = "ok"
                            THEN Append(okLinks, version_link_of(items[idx + 1]))
                            ELSE okLinks
              /\ Apply(st, "whats_new_loop")
    /\ UNCHANGED <<mode, output, files, ft>>
    /\ UNCHANGED pepVars

\* whats_new, line 65
WhatsNewReturn ==
    /\ mode = "whats-new"
    /\ pc = "whats_new_loop"
    /\ idx = Len(items)
    /\ ret' = RetRows(results)
    /\ pc' = "returned"
    /\ UNCHANGED <<mode, fault, log, net, response, results, output, page,
                   items, idx, okLinks, files, ft>>
    /\ UNCHANGED pepVars

LatestVersions ==
    /\ mode = "latest-versions"
    /\ pc = "call"
    /\ \E got \in Gets(MainPages) :
          /\ net' = NetCall("get_response", MAIN_DOC_URL, got)
          /\ Apply(latest_versions(got), "returned")
    /\ UNCHANGED <<mode, output, okLinks, files, ft>>
    /\ UNCHANGED pepVars

DownloadBegin ==
    /\ mode = "download"
    /\ pc = "call"
    /\ \E got \in Gets(DownloadPages) :
          LET st == download_begin(got)
          IN  /\ net' = NetCall("get_response", downloads_url, got)
              /\ files' = IF st.raised = "none" /\ ~st.returns
                          THEN files \cup {Dir(<<"downloads">>)} ELSE files
              /\ Apply(st, "download_archive")
    /\ UNCHANGED <<mode, output, okLinks, ft>>
    /\ UNCHANGED pepVars

\* download, lines 162-168, and its return of None
DownloadArchive ==
    /\ mode = "download"
    /\ pc = "download_archive"
    /\ \E got \in ArchiveGets :
          LET st == download_archive(got)
          IN  /\ net' = NetCall("session.get", archive_url_of(page), got)
              /\ files' = st.files
              /\ response' = st.response
              /\ log' = log \o st.logs
              /\ fault' = st.raised
              /\ pc' = IF st.raised # "none" THEN "aborted" ELSE "returned"
    /\ ret' = RetNone
    /\ UNCHANGED <<mode, results, output, page, items, idx, okLinks, ft>>
    /\ UNCHANGED pepVars

\* pep, lines 172-185
pep_begin(got) ==
    LET r == get_response(got)
        doc == r.val.body
        big_section == find_tag(doc, 0, "section", Attr("id", S_IndexByCategory))
    IN  IF r.raised # "none"
        THEN Step(r.raised, FALSE, RetNone, r.logs, response, <<PepHeader>>,
                  page, items, idx)
        ELSE IF r.val = None
        THEN Step("none", TRUE, RetNone, r.logs, r.val, <<PepHeader>>, page,
                  items, idx)
        ELSE IF big_section.raised # "none"
        THEN Step(big_section.raised, FALSE, RetNone, big_section.logs, r.val,
                  <<PepHeader>>, page, items, idx)
        ELSE Step("none", FALSE, RetNone, <<>>, r.val, <<PepHeader>>, doc,
                  <<>>, 0)

PepBegin ==
    /\ mode = "pep"
    /\ pc = "call"
    /\ \E got \in Gets(PepPages) :
          LET st == pep_begin(got)
          IN  /\ net' = NetCall("get_response", PEP_URL, got)
              /\ sections' =
                    IF st.raised = "none" /\ ~st.returns
                    THEN subsections(st.page, find(st.page, 0, "section",
                                                   Attr("id", S_IndexByCategory)))
                    ELSE sections
              /\ Apply(st, "pep_sections")
    /\ UNCHANGED <<mode, output, okLinks, files, ft>>
    /\ UNCHANGED <<si, section_status, cached_href, counter, scans, visits,
                   noAbbrYet, lastCell>>

\* pep, lines 187-197: the next section, its table and its cells
PepSection ==
    /\ mode = "pep"
    /\ pc = "pep_sections"
    /\ si < Len(sections)
    /\ LET table == section_table(page, sections[si + 1])
       IN  /\ cached_href' = {}
           /\ section_status' = status_entering_section(section_status)
           /\ noAbbrYet' = TRUE
           /\ IF table # 0
              THEN /\ items' = find_all(page, table, "td", NoAttrs)
                   /\ idx' = 0
                   /\ scans' = Append(scans, table)
                   /\ pc' = "pep_cells"
                   /\ si' = si
              ELSE /\ si' = si + 1
                   /\ UNCHANGED <<items, idx, scans, pc>>
    /\ UNCHANGED <<mode, fault, log, net, response, results, ret, output, page,
                   okLinks, files, sections, counter, visits, lastCell, ft>>

PepCell ==
    /\ mode = "pep"
    /\ pc = "pep_cells"
    /\ idx < Len(items)
    /\ \E got \in (IF pep_cell_visits THEN Gets(DetailPages) ELSE {NoGet}) :
          LET c == pep_cell(got)
          IN  /\ net' = IF got = NoGet THEN net
                        ELSE NetCall("get_response", urljoin(PEP_URL, c.lastCell.href), got)
              /\ response' = c.response
              /\ section_status' = c.section_status
              /\ cached_href' = c.cached_href
              /\ counter' = c.counter
              /\ lastCell' = c.lastCell
              /\ log' = log \o c.logs
              /\ fault' = c.raised
              /\ pc' = IF c.raised # "none" THEN "aborted" ELSE pc
              /\ idx' = IF c.raised # "none" THEN idx ELSE idx + 1
    /\ noAbbrYet' = (noAbbrYet /\ find(page, items[idx + 1], "abbr", NoAttrs) = 0)
    /\ visits' = IF pep_cell_visits
                  THEN Append(visits, <<si + 1, page[find(page, items[idx + 1], "a", NoAttrs)].val>>)
                  ELSE visits
    /\ UNCHANGED <<mode, results, ret, output, page, items, okLinks, files,
                   sections, si, scans, ft>>

\* pep, line 238, and on to the next section
PepSectionEnd ==
    /\ mode = "pep"
    /\ pc = "pep_cells"
    /\ idx = Len(items)
    /\ cached_href' = {}
    /\ si' = si + 1
    /\ pc' = "pep_sections"
    /\ UNCHANGED <<mode, fault, log, net, response, results, ret, output, page,
                   items, idx, okLinks, files, sections, section_status,
                   counter, scans, visits, noAbbrYet, lastCell, ft>>

\* pep, lines 240-241
PepReturn ==
    /\ mode = "pep"
    /\ pc = "pep_sections"
    /\ si = Len(sections)
    /\ results' = results \o counter_rows(counter)
    /\ ret' = RetRows(results')
    /\ pc' = "returned"
    /\ UNCHANGED <<mode, fault, log, net, response, output, page, items, idx,
                   okLinks, files, ft>>
    /\ UNCHANGED pepVars

\* main that hands whatever the routine returned to control_output
MainFinishUnconditional ==
    /\ pc = "returned"
    /\ output' = Append(output, ret.rows)
    /\ log' = log \o <<LogRecord("INFO", "parser finished")>>
    /\ pc' = "done"
    /\ UNCHANGED <<mode, fault, net, response, results, ret, page, items, idx,
                   okLinks, files, ft>>
    /\ UNCHANGED pepVars

\* main, lines 285-288
MainFinish ==
    /\ pc = "returned"
    /\ output' = IF ret.none THEN output ELSE Append(output, ret.rows)
    /\ log' = log \o <<LogRecord("INFO", "parser finished")>>
    /\ pc' = "done"
    /\ UNCHANGED <<mode, fault, net, response, results, ret, page, items, idx,
                   okLinks, files, ft>>
    /\ UNCHANGED pepVars

Next ==
    \/ MainStart
    \/ WhatsNewBegin
    \/ WhatsNewSection
    \/ WhatsNewReturn
    \/ LatestVersions
    \/ DownloadBegin
    \/ DownloadArchive
    \/ PepBegin
    \/ PepSection
    \/ PepCell
    \/ PepSectionEnd
    \/ PepReturn
    \/ MainFinish

Spec == Init /\ [][Next]_vars

\* The Tag Locator called once on a generated document.
InitFindTag ==
    /\ mode = "find_tag"
    /\ pc = "call"
    /\ ft \in {[doc |-> d, node |-> i, tag |-> t, attrs |-> a, called |-> FALSE,
                raised |-> "none", val |-> 0] :
                  <<d, i, t, a>> \in
                      {x \in DocsUpTo(MaxNodes) \X (0..MaxNodes) \X FtTags \X FtAttrs :
                          x[2] <= Len(x[1])}}
    /\ Locals0

FindTagCall ==
    /\ mode = "find_tag"
    /\ pc = "call"
    /\ LET out == find_tag(ft.doc, ft.node, ft.tag, ft.attrs)
       IN  /\ ft' = [ft EXCEPT !.called = TRUE, !.raised = out.raised,
                               !.val = out.val]
           /\ log' = log \o out.logs
           /\ fault' = out.raised
           /\ pc' = IF out.raised # "none" THEN "aborted" ELSE "returned"
    /\ UNCHANGED <<mode, net, response, results, ret, output, page, items, idx,
                   okLinks, files>>
    /\ UNCHANGED pepVars

NextFindTag == FindTagCall

SpecFindTag == InitFindTag /\ [][NextFindTag]_vars

---------------------------------------------------------------------------
(* Properties.                                                             *)

LoadError == LogRecord("ERROR", "page load failed")

Mismatch == LogRecord("INFO", "status mismatch")

InPep == mode = "pep" /\ pc \in {"pep_cells", "pep_sections"}

\* C1: in pep, after a cell whose PEP page was fetched and its status
\* compared, the tally of the expected status is one more than before the
\* cell if the page's status is one of the expected labels, and every other
\* tally is as before; if it is not, the whole tally is as before and exactly
\* one INFO record (the mismatch) was logged; in both cases no exception is
\* raised and the scan goes on.
C1_TallyIffMember ==
    (InPep /\ lastCell.did = "fetched") =>
        LET expected == lastCell.expected.val
            member == \E k \in 1..Len(expected) : expected[k] = lastCell.page_status
            Keys == {EXPECTED_STATUS[l] : l \in DOMAIN EXPECTED_STATUS}
        IN  /\ fault = "none"
            /\ lastCell.expected.bound
            /\ member =>
                  /\ \A key \in Keys :
                        Count(counter, key) =
                            Count(lastCell.before, key) + (IF key = expected THEN 1 ELSE 0)
                  /\ Len(log) = lastCell.logged
            /\ ~member =>
                  /\ counter = lastCell.before
                  /\ Len(log) = lastCell.logged + 1
                  /\ Last(log) = Mismatch

\* C1, its case: a page reporting Withdrawn under the abbreviation of
\* (Active, Accepted) left the tally alone and the scan running.
C1_Witness ==
    /\ InPep
    /\ lastCell.did = "fetched"
    /\ lastCell.page_status = S_Withdrawn
    /\ lastCell.expected = Bound(<<S_Active, S_Accepted>>)
    /\ counter = lastCell.before
    /\ Last(log) = Mismatch

RECURSIVE Total(_)
Total(c) == IF c = <<>> THEN 0 ELSE Head(c).n + Total(Tail(c))

\* C2: in pep, no href is requested twice within one pass of the loop over
\* the sections; a cell whose link was already seen in its section requests
\* nothing and leaves the tally alone; the tally never exceeds the number of
\* pages requested; and every link of a section is requested in that
\* section, whatever earlier sections requested.
C2_OncePerSubsection ==
    mode = "pep" =>
        /\ \A i, j \in 1..Len(visits) : i < j => visits[i] # visits[j]
        /\ Total(counter) <= Len(visits)
        /\ (pc = "pep_cells" /\ idx >= 1 /\ lastCell.did \in {"skipped", "fetched"}
                /\ lastCell.href # <<>>) =>
              /\ \E k \in 1..Len(visits) : visits[k] = <<si + 1, lastCell.href>>
              /\ lastCell.href \in cached_href
        /\ lastCell.did = "skipped" => counter = lastCell.before

\* C2, its case: the second cell of a section links to the href of the
\* first; one page was requested and the tally is 1.
C2_Witness ==
    /\ mode = "pep"
    /\ pc = "pep_cells"
    /\ idx = 2
    /\ lastCell.did = "skipped"
    /\ lastCell.href = Pep1
    /\ visits = <<<<1, Pep1>>>>
    /\ Total(counter) = 1

\* the index of the a tag of `page` that leads to url
LinkPosition(url) ==
    Min({j \in 1..Len(page) :
            page[j].tag = "a" /\ urljoin(whats_new_url, page[j].val) = url})

\* C3: when whats_new returns a result, every version entry was tried, and
\* the result is the header and one row per version page fetched, led by
\* the page's URL, in the document order of the links; no transport failure
\* leaves the routine.
C3_HeaderPlusFetched ==
    mode = "whats-new" =>
        /\ fault \notin RequestException
        /\ (pc \in {"returned", "done"} /\ ~ret.none) =>
              /\ idx = Len(items)
              /\ Len(okLinks) <= Len(items)
              /\ Len(ret.rows) = 1 + Len(okLinks)
              /\ ret.rows[1] = WhatsNewHeader
              /\ \A k \in 1..Len(okLinks) : ret.rows[k + 1][1] = okLinks[k]
              /\ \A k, l \in 1..Len(okLinks) :
                    k < l => LinkPosition(okLinks[k]) < LinkPosition(okLinks[l])

\* C3, its case: of two version links the first was unreachable and the
\* second was fetched; the result has two rows.
C3_Witness ==
    /\ mode = "whats-new"
    /\ pc = "returned"
    /\ Len(items) = 2
    /\ okLinks = <<urljoin(whats_new_url, VersionHrefs[2])>>
    /\ Len(ret.rows) = 2
    /\ \E k \in 1..Len(log) : log[k] = LoadError

\* C4: after get_response on a GET that failed at the transport layer, the
\* caller holds None, the failure is logged, and no RequestException is
\* propagating; after get_response on a GET that succeeded, the caller
\* holds the response with encoding utf-8.
C4_FetcherAbsorbsFailure ==
    net.via = "get_response" =>
        /\ net.kind \in RequestException =>
              /\ response = None
              /\ fault \notin RequestException
              /\ \E k \in 1..Len(log) : log[k] = LoadError
        /\ net.kind = "ok" =>
              /\ response.some
              /\ response.encoding = "utf-8"

\* C4, its case: a version page timed out, whats_new holds None and goes on.
C4_Witness ==
    /\ net.via = "get_response"
    /\ net.kind = "Timeout"
    /\ response = None
    /\ mode = "whats-new"
    /\ pc = "whats_new_loop"
    /\ idx = 1

\* C5: a transport failure of a page fetch never ends the run with an
\* exception.
C5_TransportFailureRecoverable ==
    net.kind \in RequestException => fault = "none"

\* C6: an exception ends the run before control_output: whenever one has
\* been raised the run is aborted and control_output was not called; and
\* control_output is called at most once, with the result the routine
\* returned, which is not None.
C6_OutputOnlyAfterResult ==
    /\ fault # "none" => (pc = "aborted" /\ output = <<>>)
    /\ pc = "aborted" => fault # "none"
    /\ output # <<>> => (pc = "done" /\ ~ret.none /\ output = <<ret.rows>>)
    /\ (pc = "done" /\ ret.none) => output = <<>>

\* C6, its case: pep had tallied a page when a PEP page without dl ended
\* the run; nothing was output.
C6_Witness ==
    /\ mode = "pep"
    /\ pc = "aborted"
    /\ fault = "ParserFindTagException"
    /\ counter # <<>>
    /\ output = <<>>

\* the descendants of the node find_tag was called on that match the call
FtMatching ==
    {j \in 1..Len(ft.doc) :
        /\ IsDescendant(ft.doc, j, ft.node)
        /\ ft.doc[j].tag = ft.tag
        /\ ft.attrs.key # "" =>
              (ft.doc[j].key = ft.attrs.key /\ ft.doc[j].val = ft.attrs.val)}

\* C7: find_tag called on a node with a matching descendant returns the
\* first of them in document order and logs nothing; called on a node with
\* none it logs an error and raises ParserFindTagException; it never returns
\* None.
C7_FirstMatchOrRaise ==
    ft.called =>
        /\ FtMatching # {} =>
              /\ ft.raised = "none"
              /\ ft.val \in FtMatching
              /\ \A j \in FtMatching : ft.val <= j
              /\ log = <<>>
        /\ FtMatching = {} =>
              /\ ft.raised = "ParserFindTagException"
              /\ fault = "ParserFindTagException"
              /\ log = <<LogRecord("ERROR", "tag not found")>>
        /\ ft.raised = "none" => ft.val # 0

\* C7, its case: the node has two matching descendants and the lookup,
\* started below the root, returned the first.
C7_Witness ==
    /\ ft.called
    /\ ft.node # 0
    /\ Cardinality(FtMatching) >= 2
    /\ ft.val = Min(FtMatching)
    /\ ft.attrs # NoAttrs

\* s[i..] starts with 'Python d.dd (', the digits of the minor version end
\* at e, and s[c] is a ')' on the same line
IsPatternAt(s, i, e, c) ==
    LET d == i + 7
    IN  /\ i >= 1 /\ d + 2 <= e /\ e + 3 <= c /\ c <= Len(s)
        /\ SubSeq(s, i, d - 1) = <<"P", "y", "t", "h", "o", "n", " ">>
        /\ s[d] \in Digits
        /\ s[d + 1] = "."
        /\ \A k \in (d + 2)..e : s[k] \in Digits
        /\ s[e + 1] = " "
        /\ s[e + 2] = "("
        /\ \A k \in (e + 3)..(c - 1) : s[k] # "\n"
        /\ s[c] = ")"

\* the row of a link with this text is right: a version and a status some
\* match of the pattern in the text delimits, or the text and '' when the
\* pattern matches nowhere in the text
RowParsed(text, version, status) ==
    LET P == 1..Len(text)
    IN  IF \E i, e, c \in P : IsPatternAt(text, i, e, c)
        THEN \E i, e, c \in P :
                /\ IsPatternAt(text, i, e, c)
                /\ version = SubSeq(text, i + 7, e)
                /\ status = SubSeq(text, e + 3, c - 1)
        ELSE version = text /\ status = <<>>

\* the first ul of the sidebar, in document order, whose text has 'All
\* versions', and its links in document order
FirstAllVersionsList ==
    Min({j \in 1..Len(page) :
            /\ page[j].tag = "ul"
            /\ IsDescendant(page, j, 1)
            /\ Contains(Text(page, j), S_AllVersions)})

LinkAt(k) ==
    LET links == {j \in 1..Len(page) :
                    page[j].tag = "a" /\ IsDescendant(page, j, FirstAllVersionsList)}
    IN  CHOOSE j \in links : Cardinality({i \in links : i <= j}) = k

\* C8: when latest_versions returns a result, it is the header and one row
\* per link of the first sidebar list whose text has 'All versions', in the
\* document order of the links: the href as found, then the version and
\* the status the pattern delimits in the link's text, or the whole text
\* and '' when the pattern matches nowhere ('Python 3.9 (stable)' gives
\* '3.9' and 'stable'; 'Python 2.0' gives 'Python 2.0' and '').
C8_RowsOfFirstList ==
    (mode = "latest-versions" /\ pc \in {"returned", "done"} /\ ~ret.none) =>
        LET links == {j \in 1..Len(page) :
                        page[j].tag = "a" /\ IsDescendant(page, j, FirstAllVersionsList)}
        IN  /\ Len(ret.rows) = 1 + Cardinality(links)
            /\ ret.rows[1] = LatestHeader
            /\ \A k \in 1..Cardinality(links) :
                  LET row == ret.rows[k + 1]
                      text == page[LinkAt(k)].text
                  IN  /\ row[1] = page[LinkAt(k)].val
                      /\ RowParsed(text, row[2], row[3])
                      /\ text = S_Stable =>
                            /\ row[2] = <<"3", ".", "9">>
                            /\ row[3] = <<"s", "t", "a", "b", "l", "e">>
                      /\ text = S_Python20 =>
                            /\ row[2] = S_Python20
                            /\ row[3] = <<>>

\* C8, its case: the second list of the sidebar is the first with 'All
\* versions'; its links read 'Python 3.9 (stable)' and 'All versions'.
C8_Witness ==
    /\ mode = "latest-versions"
    /\ pc = "returned"
    /\ ~ret.none
    /\ FirstAllVersionsList = 4
    /\ Len(ret.rows) = 3
    /\ ret.rows[2] = <<DocHrefs[1], <<"3", ".", "9">>, <<"s", "t", "a", "b", "l", "e">>>>
    /\ ret.rows[3] = <<DocHrefs[2], S_AllVersions, <<>>>>

\* the cells of the table pep walks for section k
CellsOf(k) ==
    LET tables == {j \in 1..Len(page) :
                      page[j].tag = "table" /\ IsDescendant(page, j, sections[k])}
    IN  IF tables = {} THEN <<>>
        ELSE SelectSeq([j \in 1..Len(page) |-> j],
                       LAMBDA j : page[j].tag = "td" /\ IsDescendant(page, j, Min(tables)))

RECURSIVE Walked(_)
Walked(k) == IF k = 0 THEN <<>> ELSE Walked(k - 1) \o CellsOf(k)

\* the cells pep has processed so far, the one that raised included
Processed ==
    Walked(si) \o
        (IF pc = "pep_cells" THEN SubSeq(items, 1, idx)
         ELSE IF pc = "aborted" THEN SubSeq(items, 1, idx + 1)
         ELSE <<>>)

\* the labels the abbr of the last processed cell that has one stands for
LastAbbrStatus ==
    LET HasAbbr(td) == \E j \in 1..Len(page) :
                          page[j].tag = "abbr" /\ IsDescendant(page, j, td)
        with == SelectSeq(Processed, HasAbbr)
        td == Last(with)
        abbr == Min({j \in 1..Len(page) :
                        page[j].tag = "abbr" /\ IsDescendant(page, j, td)})
    IN  IF with = <<>> THEN Unbound
        ELSE Bound(EXPECTED_STATUS[SubSeq(page[abbr].text, 2, Len(page[abbr].text))])

\* C9 as stated: a cell whose page is fetched and compared while no cell of
\* its section has had an abbr finds section_status unbound.
C9_UnboundInEverySubsection ==
    (mode = "pep" /\ lastCell.stale /\ lastCell.did \in {"fetched", "unbound"}) =>
        lastCell.did = "unbound"

\* C9, amended: a cell whose page is fetched and compared finds
\* section_status unbound exactly when no cell processed before it in the
\* whole run, in its own section or an earlier one, had an abbr; otherwise
\* the page's status is compared with the labels of the last abbr
\* processed, also when that abbr is a cell of an earlier section.
C9_UnboundOnlyBeforeFirstAbbr ==
    (mode = "pep" /\ lastCell.did \in {"fetched", "unbound"}) =>
        /\ lastCell.did = "unbound" <=> ~LastAbbrStatus.bound
        /\ lastCell.did = "unbound" => fault = "UnboundLocalError"
        /\ lastCell.did = "fetched" => lastCell.expected = LastAbbrStatus

\* C9, its case: in a later section a cell with a new link and no abbr
\* before it in that section was compared with the status an earlier
\* section left.
C9_Witness ==
    /\ mode = "pep"
    /\ pc = "pep_cells"
    /\ si >= 1
    /\ lastCell.did = "fetched"
    /\ lastCell.stale
    /\ lastCell.expected.bound
    /\ Total(counter) = 2

\* C10: pep walks the cells of no table twice, and every section it walks
\* is an immediate subsection of the index section.
C10_EachTableScannedOnce ==
    mode = "pep" =>
        /\ \A i, j \in 1..Len(scans) : i < j => scans[i] # scans[j]
        /\ \A k \in 1..Len(sections) : page[sections[k]].parent = 1

===========================================================================
